---- MODULE Spec2Model ----
(***************************************************************************)
(* Model of the heuristic reasoning engine of the politician analyzer      *)
(* (backend/agents/reasoning_agent.py).  Texts are TLA+ strings and the    *)
(* Python string operations the engine uses (lower, split, strip, title,   *)
(* substring test, the regular expressions) are modelled character by      *)
(* character.  A Python value that may be None is a sequence of length at  *)
(* most one: <<>> is None and <<s>> is the string s.  A dict is a function *)
(* whose DOMAIN is the set of keys present.                                *)
(***************************************************************************)
EXTENDS Integers, Sequences, FiniteSets, TLC

\* ------------------------------------------------------------------------
\* Python string primitives
\* ------------------------------------------------------------------------

UpperLetters == "ABCDEFGHIJKLMNOPQRSTUVWXYZ"

LowerLetters == "abcdefghijklmnopqrstuvwxyz"

Digits == "0123456789"

CharAt(s, i) == SubSeq(s, i, i)

UpperSet == {CharAt(UpperLetters, i) : i \in 1..26}

LowerSet == {CharAt(LowerLetters, i) : i \in 1..26}

DigitSet == {CharAt(Digits, i) : i \in 1..10}

IsUpper(c) == c \in UpperSet

IsLower(c) == c \in LowerSet

IsLetter(c) == IsUpper(c) \/ IsLower(c)

IsDigit(c) == c \in DigitSet

IsSpace(c) == c \in {" ", "\t", "\n"}

LowerChar(c) ==
    IF IsUpper(c)
    THEN CharAt(LowerLetters, CHOOSE i \in 1..26 : CharAt(UpperLetters, i) = c)
    ELSE c

UpperChar(c) ==
    IF IsLower(c)
    THEN CharAt(UpperLetters, CHOOSE i \in 1..26 : CharAt(LowerLetters, i) = c)
    ELSE c

\* str.lower() of s[lo..hi]
RECURSIVE LowerRange(_, _, _)
LowerRange(s, lo, hi) ==
    IF lo > hi THEN ""
    ELSE IF lo = hi THEN LowerChar(CharAt(s, lo))
    ELSE LET mid == (lo + hi) \div 2
         IN  LowerRange(s, lo, mid) \o LowerRange(s, mid + 1, hi)

\* str.title() of s[lo..hi]: a letter that follows a non-letter is
\* upper-cased, every other letter is lower-cased
RECURSIVE TitleRange(_, _, _)
TitleRange(s, lo, hi) ==
    IF lo > hi THEN ""
    ELSE IF lo = hi
    THEN IF lo > 1 /\ IsLetter(CharAt(s, lo - 1))
         THEN LowerChar(CharAt(s, lo)) ELSE UpperChar(CharAt(s, lo))
    ELSE LET mid == (lo + hi) \div 2
         IN  TitleRange(s, lo, mid) \o TitleRange(s, mid + 1, hi)

\* str.title()
Title(s) == TitleRange(s, 1, Len(s))

\* needle in hay, by comparison at every position
ContainsAt(needle, hay) ==
    \E i \in 1..(Len(hay) - Len(needle) + 1) :
        SubSeq(hay, i, i + Len(needle) - 1) = needle

\* The positions at which word starts in s
StartsOf(word, s) ==
    {i \in 1..(Len(s) - Len(word) + 1) : SubSeq(s, i, i + Len(word) - 1) = word}

\* str.find(sep) as a 1-based index, 0 when sep does not occur
Find(sep, s) ==
    LET First(starts) ==
            IF starts = {} THEN 0
            ELSE CHOOSE i \in starts : \A j \in starts : i <= j
    IN  First(StartsOf(sep, s))

\* str.split(sep) for a non-empty separator, computed piece by piece
RECURSIVE SplitFrom(_, _)
SplitFrom(s, sep) ==
    LET Cut(i) ==
            IF i = 0 THEN <<s>>
            ELSE <<SubSeq(s, 1, i - 1)>> \o SplitFrom(SubSeq(s, i + Len(sep), Len(s)), sep)
    IN  Cut(Find(sep, s))

\* str.strip()
RECURSIVE LStrip(_)
LStrip(s) ==
    IF Len(s) > 0 /\ IsSpace(CharAt(s, 1)) THEN LStrip(SubSeq(s, 2, Len(s))) ELSE s

RECURSIVE RStrip(_)
RStrip(s) ==
    IF Len(s) > 0 /\ IsSpace(CharAt(s, Len(s))) THEN RStrip(SubSeq(s, 1, Len(s) - 1)) ELSE s

Strip(s) == RStrip(LStrip(s))

\* str.split() with no argument: the maximal runs of non-space characters
RECURSIVE SplitWords(_)
SplitWords(s) ==
    LET Cut(t, i) ==
            IF Len(t) = 0 THEN <<>>
            ELSE IF i = 0 THEN <<t>>
            ELSE <<SubSeq(t, 1, i - 1)>> \o SplitWords(SubSeq(t, i, Len(t)))
    IN  Cut(LStrip(s), Find(" ", LStrip(s)))

\* seq[:n]
Take(seq, n) == SubSeq(seq, 1, IF Len(seq) < n THEN Len(seq) ELSE n)

\* seq[-n:]
LastN(seq, n) == SubSeq(seq, IF Len(seq) > n THEN Len(seq) - n + 1 ELSE 1, Len(seq))

Min(a, b) == IF a < b THEN a ELSE b

\* ------------------------------------------------------------------------
\* Optional values and dicts
\* ------------------------------------------------------------------------

None == <<>>

\* {} is the function with the empty domain
EmptyDict == <<>>

Str(s) == <<s>>

\* dict.get(key, default) with a string default
Get(d, key, default) == IF key \in DOMAIN d THEN d[key] ELSE Str(default)

\* dict.get(key)
GetOpt(d, key) == IF key \in DOMAIN d THEN d[key] ELSE None

\* f"{v}"
Fmt(v) == IF v = None THEN "None" ELSE v[1]

\* truth value of an optional string
Truthy(v) == v # None /\ v[1] # ""

\* ------------------------------------------------------------------------
\* Inputs
\* ------------------------------------------------------------------------

\* Every news sequence of at most MaxNews items is handed to analyze
MaxNews == 3

\* The longest of the news sequences that alternate two items
MaxLongNews == 7

\* Every list of at most MaxPromises promises of PromisePool is handed to the
\* metrics calculator
MaxPromises == 3

\* The number of successive calls of the metrics calculator on one list
MaxCalls == 2

Names == {"Jane Doe", "Doe"}

\* datetime.now() as <<year, month>>
Clocks == {<<2026, 11>>}

RichExtract ==
    "Jane Doe is a senator and member of the Green Party. "
    \o "She pledged to fund health care. She will cut taxes. "
    \o "Her plan to build roads was implemented. She intends to win. "
    \o "Jane Doe introduced the Clean Air Act in 2019. The trade bill passed. "
    \o "Jane Doe backed a school law. A scandal followed in 2021. "
    \o "The dispute ended. Critics opened an investigation in 2023"

PlainExtract ==
    "Jane Doe was president of France. She will reform the trade law"

\* The wikipedia records: no field, null extract, empty extract, two
\* biographies, and a sentence with two controversy keywords
WikiPool ==
    { EmptyDict,
      [extract |-> None, title |-> Str("Jane Doe")],
      [extract |-> Str(""), title |-> Str("Jane Doe")],
      [extract |-> Str(RichExtract), title |-> Str("Jane Doe")],
      [extract |-> Str(PlainExtract)],
      [extract |-> Str("Jane Doe faced a scandal and an investigation in 2020. She won")] }

\* The news items: fields present, absent, empty, null or unparseable
NewsPool ==
    { [title       |-> Str("Jane Doe pledges health bill"),
       description |-> Str("Progress in parliament"),
       publishedAt |-> Str("2024-03-05T10:00:00Z")],
      [title       |-> Str("Doe plan for jobs completed"),
       description |-> Str("Scandal over delivered roads"),
       publishedAt |-> Str("2023-12-01")],
      [title       |-> Str("Jane Doe commits to army law"),
       description |-> Str("Working group achieved it"),
       publishedAt |-> Str("yesterday")],
      [title       |-> None,
       description |-> Str("a promise")],
      [title       |-> Str("Jane Doe rally"),
       description |-> None,
       publishedAt |-> None],
      [description |-> Str("Investigation of climate dispute"),
       publishedAt |-> Str("")] }

\* The sequences over S of length at most n
SeqsUpTo(S, n) == UNION {[1..k -> S] : k \in 0..n}

\* The sequences a, b, a, b, ... of more than MaxNews items
AlternatingNews ==
    {[i \in 1..n |-> IF i % 2 = 1 THEN ab[1] ELSE ab[2]] :
        ab \in NewsPool \X NewsPool, n \in (MaxNews + 1)..MaxLongNews}

NewsSeqs == SeqsUpTo(NewsPool, MaxNews) \cup AlternatingNews

RawDataSet == {[wikipedia |-> w, news |-> ns] : w \in WikiPool, ns \in NewsSeqs}

\* A promise dict with the two keys the metrics calculator reads
PromiseOf(text, status) == [promise |-> Str(text), status |-> Str(status)]

\* Promises of every status, broken included, over eight policy areas
PromiseOrder ==
    << PromiseOf("expand health care", "fulfilled"),
       PromiseOf("create jobs", "partially_fulfilled"),
       PromiseOf("clean energy", "fulfilled"),
       PromiseOf("army funding", "partially_fulfilled"),
       PromiseOf("be honest", "fulfilled"),
       PromiseOf("build a hospital", "not_fulfilled"),
       PromiseOf("fix the road", "not_fulfilled"),
       PromiseOf("school meals", "not_fulfilled"),
       PromiseOf("pension rise", "not_fulfilled"),
       PromiseOf("trade deal", "broken"),
       PromiseOf("green tax", "in_progress") >>

PromisePool == {PromiseOrder[i] : i \in DOMAIN PromiseOrder}

\* The elements of seq at the positions in I, in order
RECURSIVE SubList(_, _)
SubList(seq, I) ==
    IF seq = <<>> THEN <<>>
    ELSE (IF Len(seq) \in I THEN SubList(SubSeq(seq, 1, Len(seq) - 1), I) \o <<seq[Len(seq)]>>
          ELSE SubList(SubSeq(seq, 1, Len(seq) - 1), I))

\* The sub-sequences of PromiseOrder
SubLists == {SubList(PromiseOrder, I) : I \in SUBSET (DOMAIN PromiseOrder)}

\* The longest of the lists of partially fulfilled promises followed by
\* unfulfilled ones
MaxUniform == 40

\* p partially fulfilled promises followed by n - p unfulfilled ones
UniformLists ==
    {[i \in 1..np[1] |-> IF i <= np[2] THEN PromiseOrder[2] ELSE PromiseOrder[6]] :
        np \in {x \in (1..MaxUniform) \X (0..MaxUniform) : x[2] <= x[1]}}

\* The promise lists handed to the metrics calculator
PromiseLists == SeqsUpTo(PromisePool, MaxPromises) \cup SubLists \cup UniformLists

\* ------------------------------------------------------------------------
\* str.lower(), the substring test and str.split(), with tables of the
\* input texts
\* ------------------------------------------------------------------------

\* The texts of the inputs: extracts, names, titles, descriptions, the
\* title-description strings the engine formats and the promise texts
InputTexts ==
    LET NewsTexts(a) ==
            {Fmt(Get(a, "title", "")), Fmt(Get(a, "description", "")),
             Fmt(Get(a, "title", "")) \o " " \o Fmt(Get(a, "description", ""))}
    IN  Names
        \cup {Fmt(Get(w, "extract", "")) : w \in WikiPool}
        \cup UNION {NewsTexts(a) : a \in NewsPool}
        \cup {Fmt(p.promise) : p \in PromisePool}

\* The pieces of the texts in S when split at sep
PiecesOf(S, sep) ==
    LET Elems(seq) == {seq[i] : i \in DOMAIN seq}
    IN  UNION {Elems(SplitFrom(t, sep)) : t \in S}

\* The input texts, their lower-case forms and the sentences of both
TableTexts ==
    LET WithStripped(both, sents) == both \cup sents \cup {Strip(t) : t \in sents}
        WithSentences(both) ==
            WithStripped(both, PiecesOf(both, ".") \cup PiecesOf(both, ". "))
        WithLower(texts) ==
            WithSentences(texts \cup {LowerRange(t, 1, Len(t)) : t \in texts})
    IN  WithLower(InputTexts)

\* str.lower() on the texts of TableTexts, computed once
LowerTable == [t \in TableTexts |-> LowerRange(t, 1, Len(t))]

\* str.lower()
Lower(s) ==
    LET Via(table) == IF s \in DOMAIN table THEN table[s] ELSE LowerRange(s, 1, Len(s))
    IN  Via(LowerTable)

\* The keywords of the engine's keyword lists
TableWords ==
    {"2023", "2024", "achieved", "act", "address", "allegation", "approved",
     "army", "benefit", "bill", "blocked", "bridge", "business", "campaign",
     "canada", "cancelled", "candidate", "carbon", "care", "center",
     "centrist", "chancellor", "chief minister", "christian democratic",
     "climate", "comment", "commit", "communist", "completed", "congress",
     "congressman", "conservative", "controversy", "criticism", "current",
     "defeated", "defense", "delayed", "delivered", "deputy", "developing",
     "diplomatic", "dispute", "economic", "economy", "education", "elected",
     "election", "enacted", "energy", "environment", "failed", "finance",
     "first minister", "foreign", "former", "france", "germany", "governor",
     "green", "health", "hospital", "implemented", "independent", "india",
     "infrastructure", "initiative", "intend", "introduced", "investigation",
     "job", "labour", "law", "left", "legislation", "legislature", "liberal",
     "lord", "mayor", "medical", "medicine", "meeting",
     "member of parliament", "military", "minister", "moderate", "mp",
     "nationalist", "opposition leader", "parliament", "party",
     "party leader", "passed", "pension", "plan", "plan to", "pledge",
     "policy", "premier", "president", "prime minister", "progress",
     "progressive", "promise", "proposed", "rally", "recent", "reform",
     "regional", "rejected", "representative", "republican", "resigned",
     "right", "road", "scandal", "school", "secretary general", "security",
     "senator", "signed", "social", "social democratic", "socialist",
     "speech", "statement", "student", "successful", "summit", "trade",
     "transport", "uk", "university", "unsuccessful", "vetoed", "visit",
     "vote", "war", "was", "welfare", "will", "won", "working"}

\* The keywords, and the keywords each text of TableTexts contains, computed
\* once
ContainsTable ==
    LET Of(words) == [words |-> words,
                      texts |-> [t \in TableTexts |-> {w \in words : ContainsAt(w, t)}]]
    IN  Of(TableWords)

\* needle in hay
Contains(needle, hay) ==
    LET Via(table) ==
            IF hay \in DOMAIN table.texts /\ needle \in table.words
            THEN needle \in table.texts[hay]
            ELSE ContainsAt(needle, hay)
    IN  Via(ContainsTable)

\* any(word in text for word in words)
AnyIn(words, text) == \E i \in DOMAIN words : Contains(words[i], text)

\* sum(1 for word in words if word in text)
CountIn(words, text) == Cardinality({i \in DOMAIN words : Contains(words[i], text)})

\* str.split(".") and str.split(". ") on the texts of TableTexts, computed once
SplitTable == [t \in TableTexts |-> [sep \in {".", ". "} |-> SplitFrom(t, sep)]]

\* str.split(sep) for a non-empty separator
Split(s, sep) ==
    LET Via(table) ==
            IF s \in DOMAIN table /\ sep \in {".", ". "} THEN table[s][sep]
            ELSE SplitFrom(s, sep)
    IN  Via(SplitTable)

\* ------------------------------------------------------------------------
\* Keyword tables (ReasoningAgent.__init__)
\* ------------------------------------------------------------------------

political_keywords_positive ==
    <<"passed", "signed", "approved", "successful", "achieved", "delivered",
      "completed", "won", "elected", "implemented">>

political_keywords_negative ==
    <<"failed", "rejected", "vetoed", "blocked", "unsuccessful", "delayed",
      "cancelled", "defeated", "resigned", "scandal">>

\* global_positions, in dict order; each entry is <<pos_type, keywords>>
global_positions ==
    << <<"president", <<"president", "prime minister", "chancellor", "premier">> >>,
       <<"legislature", <<"senator", "mp", "member of parliament", "representative",
                          "deputy", "congressman">> >>,
       <<"regional", <<"governor", "mayor", "minister", "chief minister",
                       "first minister">> >>,
       <<"party", <<"party leader", "opposition leader", "secretary general">> >> >>

\* political_spectrum, in dict order; each entry is <<spectrum, keywords>>
political_spectrum ==
    << <<"left", <<"labour", "social democratic", "socialist", "communist", "green",
                   "progressive">> >>,
       <<"center", <<"liberal", "centrist", "moderate", "independent">> >>,
       <<"right", <<"conservative", "republican", "nationalist",
                    "christian democratic">> >> >>

\* ------------------------------------------------------------------------
\* Basic information
\* ------------------------------------------------------------------------

\* [^,\.]
NotCommaDot(c) == c # "," /\ c # "."

\* The matches of  prefix([^,\.]+party)suffix  in text, case-insensitively:
\* <<i, e>> with the match starting at i and group 1 being
\* text[i + Len(prefix) .. e].
PartyMatches(prefix, suffix, text) ==
    LET Matches(low) ==
            LET is == IF prefix = "" THEN 1..Len(text) ELSE StartsOf(prefix, low)
                es == {j + 4 : j \in StartsOf("party" \o suffix, low)}
            IN  { m \in is \X es :
                    /\ m[2] - (m[1] + Len(prefix)) + 1 >= 6
                    /\ \A k \in (m[1] + Len(prefix))..m[2] : NotCommaDot(CharAt(text, k)) }
    IN  Matches(Lower(text))

\* re.search(...).group(1): leftmost start, then the longest group
PartyGroup(prefix, suffix, text) ==
    LET Group(m) == SubSeq(text, m[1] + Len(prefix), m[2])
        Longest(ms) ==
            Group(CHOOSE x \in ms :
                    \A y \in ms : x[1] < y[1] \/ (x[1] = y[1] /\ x[2] >= y[2]))
    IN  Longest(PartyMatches(prefix, suffix, text))

party_patterns ==
    << <<"member of the ", "">>,
       <<"", " member">>,
       <<"represents the ", "">>,
       <<"leader of the ", "">> >>

_identify_political_party(text) ==
    LET First(S) == CHOOSE h \in S : \A k \in S : h <= k
        Group(i) == Title(PartyGroup(party_patterns[i][1], party_patterns[i][2], text))
        Party(hits, specs) ==
            IF hits # {} THEN Group(First(hits))
            ELSE IF specs # {}
            THEN Title(political_spectrum[First(specs)][1]) \o " Political Party"
            ELSE "Unknown"
    IN  Party({i \in DOMAIN party_patterns :
                  PartyMatches(party_patterns[i][1], party_patterns[i][2], text) # {}},
              {i \in DOMAIN political_spectrum : AnyIn(political_spectrum[i][2], text)})

country_titles ==
    << <<"india", <<"prime minister", "chief minister", "mp">> >>,
       <<"uk", <<"prime minister", "mp", "lord">> >>,
       <<"germany", <<"chancellor", "minister">> >>,
       <<"france", <<"president", "prime minister">> >>,
       <<"canada", <<"prime minister", "mp">> >> >>

\* The first <<i, j>> in nested-loop order with table[i][2][j] in text_lower
\* (and, when byFirst, table[i][1] in text_lower); <<0, 0>> if there is none.
FirstHit(table, text_lower, byFirst) ==
    LET First(hits) ==
            IF hits = {} THEN <<0, 0>>
            ELSE CHOOSE h \in hits :
                    \A k \in hits : h[1] < k[1] \/ (h[1] = k[1] /\ h[2] <= k[2])
    IN  First({h \in (DOMAIN table) \X (1..5) :
                  /\ h[2] \in DOMAIN table[h[1]][2]
                  /\ (byFirst => Contains(table[h[1]][1], text_lower))
                  /\ Contains(table[h[1]][2][h[2]], text_lower)})

\* FirstHit with the operands of "in" exchanged: text_lower in keyword
FirstHitSwapped(table, text_lower, byFirst) ==
    LET First(hits) ==
            IF hits = {} THEN <<0, 0>>
            ELSE CHOOSE h \in hits :
                    \A k \in hits : h[1] < k[1] \/ (h[1] = k[1] /\ h[2] <= k[2])
    IN  First({h \in (DOMAIN table) \X (1..5) :
                  /\ h[2] \in DOMAIN table[h[1]][2]
                  /\ (byFirst => Contains(table[h[1]][1], text_lower))
                  /\ Contains(text_lower, table[h[1]][2][h[2]])})

\* _identify_political_position testing "text_lower in keyword" in the loop
\* over the executive positions
_identify_political_position_swapped(text, name) ==
    LET Position(text_lower, h, c) ==
            IF h # <<0, 0>>
            THEN LET pos_type == global_positions[h[1]][1]
                     keyword  == global_positions[h[1]][2][h[2]]
                 IN  IF pos_type = "president"
                         /\ (Contains("former", text_lower) \/ Contains("was", text_lower))
                     THEN "Former " \o Title(keyword)
                     ELSE Title(keyword)
            ELSE IF c # <<0, 0>>
            THEN Title(country_titles[c[1]][2][c[2]])
            ELSE "Political Figure"
        Of(text_lower) ==
            Position(text_lower,
                     FirstHitSwapped(global_positions, text_lower, FALSE),
                     FirstHit(country_titles, text_lower, TRUE))
    IN  Of(Lower(text))

\* _identify_political_position without the test of pos_type: a hit of any
\* category is prefixed when the text contains "former" or "was"
_identify_political_position_any_former(text, name) ==
    LET Position(text_lower, h, c) ==
            IF h # <<0, 0>>
            THEN LET keyword == global_positions[h[1]][2][h[2]]
                 IN  IF Contains("former", text_lower) \/ Contains("was", text_lower)
                     THEN "Former " \o Title(keyword)
                     ELSE Title(keyword)
            ELSE IF c # <<0, 0>>
            THEN Title(country_titles[c[1]][2][c[2]])
            ELSE "Political Figure"
        Of(text_lower) ==
            Position(text_lower,
                     FirstHit(global_positions, text_lower, FALSE),
                     FirstHit(country_titles, text_lower, TRUE))
    IN  Of(Lower(text))

_identify_political_position(text, name) ==
    LET Position(text_lower, h, c) ==
            IF h # <<0, 0>>
            THEN LET pos_type == global_positions[h[1]][1]
                     keyword  == global_positions[h[1]][2][h[2]]
                 IN  IF pos_type = "president"
                         /\ (Contains("former", text_lower) \/ Contains("was", text_lower))
                     THEN "Former " \o Title(keyword)
                     ELSE Title(keyword)
            ELSE IF c # <<0, 0>>
            THEN Title(country_titles[c[1]][2][c[2]])
            ELSE "Political Figure"
        Of(text_lower) ==
            Position(text_lower,
                     FirstHit(global_positions, text_lower, FALSE),
                     FirstHit(country_titles, text_lower, TRUE))
    IN  Of(Lower(text))

\* wiki_data.get('extract', '').lower() raises AttributeError on None
_extract_basic_info_raises(name, wiki_data) == Get(wiki_data, "extract", "") = None

\* term_period and summary are not modelled: no property checked here reads them
_extract_basic_info(name, wiki_data) ==
    LET Info(extract) ==
            [party    |-> _identify_political_party(extract),
             position |-> _identify_political_position(extract, name)]
    IN  Info(Lower(Fmt(Get(wiki_data, "extract", ""))))

\* ------------------------------------------------------------------------
\* Numbers and dates
\* ------------------------------------------------------------------------

DigitVal(c) == (CHOOSE i \in 1..10 : CharAt(Digits, i) = c) - 1

AllDigits(s) == \A i \in 1..Len(s) : IsDigit(CharAt(s, i))

\* int(s) for a string of digits
RECURSIVE ParseInt(_)
ParseInt(s) ==
    IF Len(s) = 0 THEN 0
    ELSE 10 * ParseInt(SubSeq(s, 1, Len(s) - 1)) + DigitVal(CharAt(s, Len(s)))

\* str(n) for n >= 0
RECURSIVE IntToStr(_)
IntToStr(n) ==
    IF n < 10 THEN CharAt(Digits, n + 1) ELSE IntToStr(n \div 10) \o CharAt(Digits, (n % 10) + 1)

\* n formatted with at least two digits (%m)
TwoDigits(n) == IF n < 10 THEN "0" \o IntToStr(n) ELSE IntToStr(n)

\* str.replace(old, new)
RECURSIVE Replace(_, _, _)
Replace(s, old, new) ==
    LET At(i) ==
            IF i = 0 THEN s
            ELSE SubSeq(s, 1, i - 1) \o new
                    \o Replace(SubSeq(s, i + Len(old), Len(s)), old, new)
    IN  At(Find(old, s))

IsLeap(y) == (y % 4 = 0 /\ y % 100 # 0) \/ y % 400 = 0

DaysInMonth(y, m) ==
    IF m = 2 THEN (IF IsLeap(y) THEN 29 ELSE 28)
    ELSE IF m \in {4, 6, 9, 11} THEN 30 ELSE 31

\* YYYY-MM-DD
IsIsoDatePart(s) ==
    /\ Len(s) = 10
    /\ AllDigits(SubSeq(s, 1, 4)) /\ CharAt(s, 5) = "-"
    /\ AllDigits(SubSeq(s, 6, 7)) /\ CharAt(s, 8) = "-"
    /\ AllDigits(SubSeq(s, 9, 10))
    /\ LET y == ParseInt(SubSeq(s, 1, 4))
           m == ParseInt(SubSeq(s, 6, 7))
           d == ParseInt(SubSeq(s, 9, 10))
       IN  y >= 1 /\ m \in 1..12 /\ d \in 1..DaysInMonth(y, m)

\* HH:MM:SS
IsIsoTimePart(s) ==
    /\ Len(s) = 8
    /\ AllDigits(SubSeq(s, 1, 2)) /\ CharAt(s, 3) = ":"
    /\ AllDigits(SubSeq(s, 4, 5)) /\ CharAt(s, 6) = ":"
    /\ AllDigits(SubSeq(s, 7, 8))
    /\ ParseInt(SubSeq(s, 1, 2)) < 24
    /\ ParseInt(SubSeq(s, 4, 5)) < 60
    /\ ParseInt(SubSeq(s, 7, 8)) < 60

\* +HH:MM or -HH:MM
IsIsoOffset(s) ==
    /\ Len(s) = 6
    /\ CharAt(s, 1) \in {"+", "-"}
    /\ AllDigits(SubSeq(s, 2, 3)) /\ CharAt(s, 4) = ":"
    /\ AllDigits(SubSeq(s, 5, 6))
    /\ ParseInt(SubSeq(s, 2, 3)) < 24
    /\ ParseInt(SubSeq(s, 5, 6)) < 60

\* The strings datetime.fromisoformat accepts, restricted to the shapes
\* YYYY-MM-DD, YYYY-MM-DD?HH:MM:SS and YYYY-MM-DD?HH:MM:SS+HH:MM (? any one
\* character); every other string is taken to raise ValueError.
FromIsoFormatOk(s) ==
    \/ IsIsoDatePart(s)
    \/ Len(s) = 19 /\ IsIsoDatePart(SubSeq(s, 1, 10)) /\ IsIsoTimePart(SubSeq(s, 12, 19))
    \/ Len(s) = 25 /\ IsIsoDatePart(SubSeq(s, 1, 10)) /\ IsIsoTimePart(SubSeq(s, 12, 19))
                   /\ IsIsoOffset(SubSeq(s, 20, 25))

\* StrfYearMonth printing the month without its leading zero
StrfYearMonth_unpadded(y, m) == IntToStr(y) \o "-" \o IntToStr(m)

\* date_obj.strftime('%Y-%m'); %Y prints the year without padding (glibc)
StrfYearMonth(y, m) == IntToStr(y) \o "-" \o TwoDigits(m)

\* now is datetime.now() as <<year, month>>
_parse_news_date(date_str, now) ==
    LET Parse(iso) ==
            IF Truthy(date_str) /\ FromIsoFormatOk(iso)
            THEN StrfYearMonth(ParseInt(SubSeq(iso, 1, 4)), ParseInt(SubSeq(iso, 6, 7)))
            ELSE StrfYearMonth(now[1], now[2])
    IN  Parse(Replace(Fmt(date_str), "Z", "+00:00"))

\* ------------------------------------------------------------------------
\* Activities
\* ------------------------------------------------------------------------

_classify_activity_category(title, description) ==
    LET Category(text) ==
            IF AnyIn(<<"bill", "law", "legislation", "vote", "parliament", "congress">>, text)
            THEN "Legislation"
            ELSE IF AnyIn(<<"campaign", "election", "rally", "candidate">>, text)
            THEN "Campaign"
            ELSE IF AnyIn(<<"meeting", "summit", "visit", "diplomatic", "foreign">>, text)
            THEN "Diplomacy"
            ELSE IF AnyIn(<<"statement", "speech", "address", "comment">>, text)
            THEN "Public Statement"
            ELSE IF AnyIn(<<"policy", "reform", "initiative">>, text)
            THEN "Policy Initiative"
            ELSE "General Activity"
    IN  Category(Lower(Fmt(title) \o " " \o Fmt(description)))

_assess_activity_impact(title, description) ==
    LET Impact(positive_count, negative_count) ==
            IF positive_count > negative_count THEN "positive"
            ELSE IF negative_count > positive_count THEN "controversial"
            ELSE "neutral"
        Of(text) == Impact(CountIn(political_keywords_positive, text),
                           CountIn(political_keywords_negative, text))
    IN  Of(Lower(Fmt(title) \o " " \o Fmt(description)))

\* One pass of the loop over sentences[-3:]
RECURSIVE WikiActivityLoop(_)
WikiActivityLoop(sentences) ==
    IF sentences = <<>> THEN <<>>
    ELSE LET sentence == Head(sentences)
         IN  (IF AnyIn(<<"recent", "2024", "2023", "current">>, Lower(sentence))
              THEN << [activity |-> Strip(sentence),
                       date     |-> "2024",
                       category |-> "General Activity",
                       impact   |-> "neutral",
                       details  |-> "Extracted from biographical information"] >>
              ELSE <<>>)
             \o WikiActivityLoop(Tail(sentences))

_extract_wiki_activities(name, wiki_data) ==
    LET extract   == Fmt(Get(wiki_data, "extract", ""))
        sentences == Split(extract, ". ")
    IN  WikiActivityLoop(LastN(sentences, 3))

\* One pass of the loop over news_data[:6]
RECURSIVE NewsActivityLoop(_, _, _)
NewsActivityLoop(name, articles, now) ==
    IF articles = <<>> THEN <<>>
    ELSE LET article      == Head(articles)
             title        == Get(article, "title", "")
             description  == Get(article, "description", "")
             published_at == Get(article, "publishedAt", "")
         IN  (IF Truthy(title) /\ Contains(Lower(name), Lower(Fmt(title)))
              THEN << [activity |-> Fmt(title),
                       date     |-> _parse_news_date(published_at, now),
                       category |-> _classify_activity_category(title, description),
                       impact   |-> _assess_activity_impact(title, description),
                       details  |-> IF Truthy(description) THEN Fmt(description)
                                    ELSE "No additional details available."] >>
              ELSE <<>>)
             \o NewsActivityLoop(name, Tail(articles), now)

_analyze_real_activities(name, wiki_data, news_data, now) ==
    LET Capped(activities) ==
            IF activities = <<>>
            THEN Take(_extract_wiki_activities(name, wiki_data), 6)
            ELSE Take(activities, 6)
    IN  Capped(NewsActivityLoop(name, Take(news_data, 6), now))

\* ------------------------------------------------------------------------
\* Promises
\* ------------------------------------------------------------------------

\* _determine_promise_status with > in place of >= at the first threshold
_determine_promise_status_gt(percentage) ==
    IF percentage > 80 THEN "fulfilled"
    ELSE IF percentage >= 60 THEN "partially_fulfilled"
    ELSE IF percentage >= 30 THEN "in_progress"
    ELSE "not_fulfilled"

_determine_promise_status(percentage) ==
    IF percentage >= 80 THEN "fulfilled"
    ELSE IF percentage >= 60 THEN "partially_fulfilled"
    ELSE IF percentage >= 30 THEN "in_progress"
    ELSE "not_fulfilled"

\* f"{article.get('title', '')} {article.get('description', '')}".lower()
ArticleText(article) ==
    Lower(Fmt(Get(article, "title", "")) \o " " \o Fmt(Get(article, "description", "")))

\* ArticleScore with the completion test as a second if, not the elif of
\* the progress test
ArticleScore_independent(promise_text, article) ==
    LET Score(article_text) ==
            IF AnyIn(Take(SplitWords(promise_text), 3), article_text)
            THEN (IF AnyIn(<<"progress", "working", "developing">>, article_text)
                  THEN 20 ELSE 0)
                 + (IF AnyIn(<<"completed", "achieved", "delivered">>, article_text)
                    THEN 50 ELSE 0)
            ELSE 0
    IN  Score(ArticleText(article))

\* What one news article adds to the score of a promise
ArticleScore(promise_text, article) ==
    LET Score(article_text) ==
            IF AnyIn(Take(SplitWords(promise_text), 3), article_text)
            THEN IF AnyIn(<<"progress", "working", "developing">>, article_text) THEN 20
                 ELSE IF AnyIn(<<"completed", "achieved", "delivered">>, article_text) THEN 50
                 ELSE 0
            ELSE 0
    IN  Score(ArticleText(article))

RECURSIVE NewsScore(_, _)
NewsScore(promise_text, news_data) ==
    IF news_data = <<>> THEN 0
    ELSE ArticleScore(promise_text, Head(news_data))
            + NewsScore(promise_text, Tail(news_data))

\* promise['promise'].lower() raises AttributeError on None
_calculate_real_fulfillment_raises(promise) == promise.promise = None

_calculate_real_fulfillment(promise, wiki_data, news_data) ==
    LET promise_text == Lower(Fmt(promise.promise))
        wiki_text    == Lower(Fmt(Get(wiki_data, "extract", "")))
        wiki_score   == IF AnyIn(<<"achieved", "completed", "implemented", "delivered">>,
                                 wiki_text)
                        THEN 40 ELSE 0
    IN  Min(wiki_score + NewsScore(promise_text, news_data), 100)

\* The sentences of extract.split('.') that contain a promise keyword, stripped
RECURSIVE PromiseSentences(_)
PromiseSentences(sentences) ==
    IF sentences = <<>> THEN <<>>
    ELSE (IF AnyIn(<<"promise", "pledge", "commit", "plan to", "will", "intend">>,
                   Lower(Head(sentences)))
          THEN <<Strip(Head(sentences))>> ELSE <<>>)
         \o PromiseSentences(Tail(sentences))

\* The promises taken from the news articles, before scoring
RECURSIVE NewsPromises(_)
NewsPromises(news_data) ==
    IF news_data = <<>> THEN <<>>
    ELSE LET article     == Head(news_data)
             title       == Get(article, "title", "")
             description == Get(article, "description", "")
         IN  (IF AnyIn(<<"promise", "pledge", "commit", "plan">>,
                       Lower(Fmt(title) \o " " \o Fmt(description)))
              THEN << [promise     |-> title,
                       made_during |-> "Recent statements",
                       evidence    |-> description,
                       timeline    |-> "Ongoing",
                       impact      |-> "To be determined based on implementation"] >>
              ELSE <<>>)
             \o NewsPromises(Tail(news_data))

\* The promises taken from the biography sentences, before scoring
WikiPromises(promise_sentences) ==
    [i \in DOMAIN promise_sentences |->
        [promise     |-> Str(promise_sentences[i]),
         made_during |-> "Political career",
         evidence    |-> Str("Mentioned in biographical information"),
         timeline    |-> "Ongoing",
         impact      |-> "Policy-related commitment"]]

\* UnscoredPromises with the biography loop before the news loop
UnscoredPromises_biography_first(wiki_data, news_data) ==
    LET extract == Lower(Fmt(Get(wiki_data, "extract", "")))
        promise_sentences == PromiseSentences(Split(extract, "."))
    IN  WikiPromises(Take(promise_sentences, 3)) \o NewsPromises(news_data)

\* The promise list before scoring
UnscoredPromises(wiki_data, news_data) ==
    LET extract == Lower(Fmt(Get(wiki_data, "extract", "")))
        promise_sentences == PromiseSentences(Split(extract, "."))
    IN  NewsPromises(news_data) \o WikiPromises(Take(promise_sentences, 3))

\* The scoring loop: fulfillment_percentage and status are added to each promise
ScoredPromises(promises, wiki_data, news_data) ==
    LET Scored(promise, percentage) ==
            [promise                |-> promise.promise,
             made_during            |-> promise.made_during,
             evidence               |-> promise.evidence,
             timeline               |-> promise.timeline,
             impact                 |-> promise.impact,
             fulfillment_percentage |-> percentage,
             status                 |-> Str(_determine_promise_status(percentage))]
    IN  [i \in DOMAIN promises |->
            Scored(promises[i],
                   _calculate_real_fulfillment(promises[i], wiki_data, news_data))]

_extract_real_promises_raises(name, wiki_data, news_data) ==
    LET AnyRaises(promises) ==
            \E i \in DOMAIN promises : _calculate_real_fulfillment_raises(promises[i])
    IN  \/ Get(wiki_data, "extract", "") = None
        \/ AnyRaises(NewsPromises(news_data))

\* _extract_real_promises without the final [:6]
_extract_real_promises_uncapped(name, wiki_data, news_data) ==
    ScoredPromises(UnscoredPromises(wiki_data, news_data), wiki_data, news_data)

_extract_real_promises(name, wiki_data, news_data) ==
    Take(ScoredPromises(UnscoredPromises(wiki_data, news_data), wiki_data, news_data), 6)

\* ------------------------------------------------------------------------
\* Policy areas, years, bills
\* ------------------------------------------------------------------------

_determine_policy_area(text0) ==
    LET Area(text) ==
            IF AnyIn(<<"health", "medical", "care", "hospital", "medicine">>, text)
            THEN "Healthcare"
            ELSE IF AnyIn(<<"economy", "job", "business", "trade", "finance", "economic">>,
                          text)
            THEN "Economy"
            ELSE IF AnyIn(<<"environment", "climate", "energy", "green", "carbon">>, text)
            THEN "Environment"
            ELSE IF AnyIn(<<"defense", "military", "security", "army", "war">>, text)
            THEN "Defense"
            ELSE IF AnyIn(<<"education", "school", "university", "student">>, text)
            THEN "Education"
            ELSE IF AnyIn(<<"infrastructure", "transport", "road", "bridge">>, text)
            THEN "Infrastructure"
            ELSE IF AnyIn(<<"social", "welfare", "pension", "benefit">>, text)
            THEN "Social Policy"
            ELSE "General Policy"
    IN  Area(Lower(text0))

\* re.search(r'(19|20)\d{2}', text)
YearMatches(text) ==
    {i \in 1..(Len(text) - 3) :
        /\ SubSeq(text, i, i + 1) \in {"19", "20"}
        /\ AllDigits(SubSeq(text, i + 2, i + 3))}

_extract_year_from_text(text) ==
    LET Year(ms) ==
            IF ms = {} THEN "2024"
            ELSE LET i == CHOOSE m \in ms : \A k \in ms : m <= k
                 IN  SubSeq(text, i, i + 3)
    IN  Year(YearMatches(text))

_determine_bill_status(text0) ==
    LET Status(text) ==
            IF AnyIn(<<"passed", "enacted", "signed">>, text) THEN "Passed"
            ELSE IF AnyIn(<<"proposed", "introduced">>, text) THEN "Introduced"
            ELSE IF AnyIn(<<"failed", "rejected">>, text) THEN "Failed"
            ELSE "Unknown"
    IN  Status(Lower(text0))

_determine_legislative_role(text0, name) ==
    LET Role(text, name_lower) ==
            IF AnyIn(<<name_lower \o " introduced", name_lower \o " proposed">>, text)
            THEN "Sponsor"
            ELSE IF AnyIn(<<name_lower \o " supported", name_lower \o " backed">>, text)
            THEN "Supporter"
            ELSE IF AnyIn(<<name_lower \o " voted", name_lower \o " opposed">>, text)
            THEN "Voter"
            ELSE "Involved"
    IN  Role(Lower(text0), Lower(name))

\* The occurrences <<b, e>> of act, bill or law in low
BillWordSpans(low) ==
    {<<i, i + 2>> : i \in StartsOf("act", low) \cup StartsOf("law", low)}
        \cup {<<i, i + 3>> : i \in StartsOf("bill", low)}

\* The ends of the matches of r'([A-Z][^.]*(?:act|bill|law))' that start at s
BillEndsFrom(sentence, spans, s) ==
    {sp[2] : sp \in {x \in spans :
                        /\ x[1] > s
                        /\ \A k \in (s + 1)..x[2] : CharAt(sentence, k) # "."}}

\* The match starts of r'([A-Z][^.]*(?:act|bill|law))' with re.IGNORECASE
BillStarts(sentence) ==
    LET spans == BillWordSpans(Lower(sentence))
    IN  {s \in 1..Len(sentence) :
            /\ IsLetter(CharAt(sentence, s))
            /\ BillEndsFrom(sentence, spans, s) # {}}

\* bill_match.group(1): leftmost start, then the longest match
BillGroup(sentence) ==
    LET Least(starts) == CHOOSE x \in starts : \A y \in starts : x <= y
        Greatest(es) == CHOOSE x \in es : \A y \in es : x >= y
        From(s) ==
            SubSeq(sentence, s,
                   Greatest(BillEndsFrom(sentence, BillWordSpans(Lower(sentence)), s)))
    IN  From(Least(BillStarts(sentence)))

\* The loop over the biography sentences
RECURSIVE WikiBills(_, _)
WikiBills(sentences, name) ==
    IF sentences = <<>> THEN <<>>
    ELSE LET sentence == Head(sentences)
         IN  (IF /\ AnyIn(<<"bill", "act", "law", "legislation", "reform">>, Lower(sentence))
                 /\ BillStarts(sentence) # {}
              THEN << [title       |-> Strip(BillGroup(sentence)),
                       bill_number |-> "N/A",
                       year        |-> _extract_year_from_text(sentence),
                       description |-> Strip(sentence),
                       status      |-> _determine_bill_status(sentence),
                       role        |-> _determine_legislative_role(sentence, name),
                       impact_area |-> _determine_policy_area(sentence)] >>
              ELSE <<>>)
             \o WikiBills(Tail(sentences), name)

\* ActivityBills without the test of the category: every activity becomes
\* a bill
RECURSIVE ActivityBills_any_category(_)
ActivityBills_any_category(activities) ==
    IF activities = <<>> THEN <<>>
    ELSE LET activity == Head(activities)
         IN  << [title       |-> activity.activity,
                 bill_number |-> "N/A",
                 year        |-> IF activity.date # "" THEN Take(activity.date, 4)
                                 ELSE "2024",
                 description |-> activity.details,
                 status      |-> "Recent Activity",
                 role        |-> "Involved",
                 impact_area |-> _determine_policy_area(activity.activity)] >>
             \o ActivityBills_any_category(Tail(activities))

\* The loop over the activities
RECURSIVE ActivityBills(_)
ActivityBills(activities) ==
    IF activities = <<>> THEN <<>>
    ELSE LET activity == Head(activities)
         IN  (IF activity.category = "Legislation"
              THEN << [title       |-> activity.activity,
                       bill_number |-> "N/A",
                       year        |-> IF activity.date # "" THEN Take(activity.date, 4)
                                       ELSE "2024",
                       description |-> activity.details,
                       status      |-> "Recent Activity",
                       role        |-> "Involved",
                       impact_area |-> _determine_policy_area(activity.activity)] >>
              ELSE <<>>)
             \o ActivityBills(Tail(activities))

_extract_real_legislative_record(name, wiki_data, activities) ==
    LET extract == Lower(Fmt(Get(wiki_data, "extract", "")))
    IN  Take(WikiBills(Split(extract, "."), name) \o ActivityBills(activities), 5)

\* ------------------------------------------------------------------------
\* Controversies
\* ------------------------------------------------------------------------

controversy_keywords ==
    <<"controversy", "scandal", "criticism", "dispute", "allegation", "investigation">>

\* article.get(...).lower() raises AttributeError on None
_identify_real_controversies_raises(name, wiki_data, news_data) ==
    \/ \E i \in DOMAIN news_data :
            \/ Get(news_data[i], "title", "") = None
            \/ Get(news_data[i], "description", "") = None
    \/ Get(wiki_data, "extract", "") = None

\* The loop over the news articles
RECURSIVE NewsControversies(_, _)
NewsControversies(news_data, now) ==
    IF news_data = <<>> THEN <<>>
    ELSE LET article     == Head(news_data)
             title       == Lower(Fmt(Get(article, "title", "")))
             description == Lower(Fmt(Get(article, "description", "")))
         IN  (IF AnyIn(controversy_keywords, title \o " " \o description)
              THEN << [issue      |-> Fmt(Get(article, "title", "Political controversy")),
                       year       |-> Take(_parse_news_date(
                                              Get(article, "publishedAt", ""), now), 4),
                       resolution |-> "Ongoing news coverage"] >>
              ELSE <<>>)
             \o NewsControversies(Tail(news_data), now)

\* [s for s in extract.split('.') if keyword in s.lower()]
RECURSIVE SentencesWith(_, _)
SentencesWith(keyword, sentences) ==
    IF sentences = <<>> THEN <<>>
    ELSE (IF Contains(keyword, Lower(Head(sentences))) THEN <<Head(sentences)>> ELSE <<>>)
         \o SentencesWith(keyword, Tail(sentences))

\* The loop over the controversy keywords, from keyword number k on
RECURSIVE WikiControversies(_, _)
WikiControversies(extract, k) ==
    IF k > Len(controversy_keywords) THEN <<>>
    ELSE LET Found(sentences) ==
                 [i \in DOMAIN sentences |->
                     [issue      |-> Strip(sentences[i]),
                      year       |-> _extract_year_from_text(sentences[i]),
                      resolution |-> "Historical record"]]
             Of(keyword) ==
                 IF Contains(keyword, extract)
                 THEN Found(Take(SentencesWith(keyword, Split(extract, ".")), 2))
                 ELSE <<>>
         IN  Of(controversy_keywords[k]) \o WikiControversies(extract, k + 1)

_identify_real_controversies(name, wiki_data, news_data, now) ==
    LET extract == Lower(Fmt(Get(wiki_data, "extract", "")))
    IN  Take(NewsControversies(news_data, now) \o WikiControversies(extract, 1), 3)

\* ------------------------------------------------------------------------
\* Double-precision arithmetic
\*
\* fulfillment_rate is computed with Python floats.  A natural number too
\* large for TLC's integers is a little-endian sequence of limbs in base
\* 2^20 without leading zero limbs; a positive double is [m, k], standing
\* for m / 2^k with 2^52 <= m <= 2^53; [m |-> <<>>, k |-> 0] is 0.0.
\* ------------------------------------------------------------------------

LimbBase == 2 ^ 20

RECURSIVE BigNorm(_)
BigNorm(x) ==
    IF x # <<>> /\ x[Len(x)] = 0 THEN BigNorm(SubSeq(x, 1, Len(x) - 1)) ELSE x

BigFromInt(n) == BigNorm(<<n % LimbBase, n \div LimbBase>>)

\* x * c + carry, for c < 1024
RECURSIVE BigMulSmall(_, _, _)
BigMulSmall(x, c, carry) ==
    IF x = <<>> THEN (IF carry = 0 THEN <<>> ELSE <<carry>>)
    ELSE LET t == Head(x) * c + carry
         IN  <<t % LimbBase>> \o BigMulSmall(Tail(x), c, t \div LimbBase)

\* quotient and remainder of x by d, for d < 1024
RECURSIVE BigDivSmall(_, _)
BigDivSmall(x, d) ==
    IF x = <<>> THEN [q |-> <<>>, r |-> 0]
    ELSE LET hi == BigDivSmall(Tail(x), d)
             t  == hi.r * LimbBase + Head(x)
         IN  [q |-> BigNorm(<<t \div d>> \o hi.q), r |-> t % d]

\* -1, 0 or 1 as x <, =, > y
RECURSIVE BigCmp(_, _)
BigCmp(x, y) ==
    IF Len(x) # Len(y) THEN (IF Len(x) < Len(y) THEN -1 ELSE 1)
    ELSE IF x = <<>> THEN 0
    ELSE LET n == Len(x)
         IN  IF x[n] # y[n] THEN (IF x[n] < y[n] THEN -1 ELSE 1)
             ELSE BigCmp(BigNorm(SubSeq(x, 1, n - 1)), BigNorm(SubSeq(y, 1, n - 1)))

BigIsOdd(x) == x # <<>> /\ x[1] % 2 = 1

\* x * 2^j
RECURSIVE BigShl(_, _)
BigShl(x, j) ==
    IF j = 0 THEN x
    ELSE IF j >= 9 THEN BigShl(BigMulSmall(x, 512, 0), j - 9)
    ELSE BigShl(BigMulSmall(x, 2, 0), j - 1)

\* x \div 2^j
RECURSIVE BigShr(_, _)
BigShr(x, j) ==
    IF j = 0 THEN x
    ELSE IF j >= 9 THEN BigShr(BigDivSmall(x, 512).q, j - 9)
    ELSE BigShr(BigDivSmall(x, 2).q, j - 1)

\* x as an integer, for x < 2^31
BigToInt(x) ==
    IF x = <<>> THEN 0 ELSE IF Len(x) = 1 THEN x[1] ELSE x[1] + LimbBase * x[2]

Two43 == <<0, 0, 8>>

Two52 == <<0, 0, 4096>>

Two53 == <<0, 0, 8192>>

FloatZero == [m |-> <<>>, k |-> 0]

\* q.q rounded to nearest, ties to even, where q.r is the remainder by d
RoundHalfEven(q, d) ==
    IF 2 * q.r > d \/ (2 * q.r = d /\ BigIsOdd(q.q))
    THEN BigMulSmall(q.q, 1, 1) ELSE q.q

\* The least scaling num = a * 2^k for which num \div d has 53 bits
RECURSIVE ScaleUp(_, _, _)
ScaleUp(num, d, k) ==
    LET q == BigDivSmall(num, d).q
    IN  IF BigCmp(q, Two52) >= 0 THEN [num |-> num, k |-> k]
        ELSE IF BigCmp(q, Two43) < 0 THEN ScaleUp(BigMulSmall(num, 512, 0), d, k + 9)
        ELSE ScaleUp(BigMulSmall(num, 2, 0), d, k + 1)

\* The double nearest to a / d, for integers 0 <= a, 0 < d < 1024
FloatDiv(a, d) ==
    IF a = 0 THEN FloatZero
    ELSE LET sc == ScaleUp(BigFromInt(a), d, 0)
         IN  [m |-> RoundHalfEven(BigDivSmall(sc.num, d), d), k |-> sc.k]

\* The least s for which p \div 2^s has at most 53 bits
RECURSIVE ScaleDown(_, _)
ScaleDown(p, s) ==
    IF BigCmp(BigShr(p, s), Two53) < 0 THEN s ELSE ScaleDown(p, s + 1)

\* The double nearest to x * c, for an integer 0 < c <= 128
FloatMulSmall(x, c) ==
    IF x.m = <<>> THEN FloatZero
    ELSE LET p == BigMulSmall(x.m, c, 0)
             s == ScaleDown(p, 0)
             w == IF s = 0 THEN 1 ELSE 2 * (2 ^ (s - 1))
         IN  [m |-> RoundHalfEven(BigDivSmall(p, w), w), k |-> x.k - s]

\* round(x, 1) in tenths: the integer nearest to 10 * x, ties to even
\* (float.__round__ rounds the exact binary value), for x < 2^20
RoundTenths(x) ==
    IF x.m = <<>> THEN 0
    ELSE LET p  == BigMulSmall(x.m, 10, 0)
             lo == BigToInt(BigShr(p, x.k))
             c  == BigCmp(BigMulSmall(p, 2, 0), BigShl(BigFromInt(2 * lo + 1), x.k))
         IN  IF c > 0 \/ (c = 0 /\ lo % 2 = 1) THEN lo + 1 ELSE lo

\* f"{rate}" for a rate given in tenths: the repr of the double nearest to
\* tenths / 10 has exactly one decimal
FmtTenths(t) == IntToStr(t \div 10) \o "." \o IntToStr(t % 10)

\* ------------------------------------------------------------------------
\* Promise metrics
\* ------------------------------------------------------------------------

\* The results of the successive calls of the metrics calculator on one
\* promise list
VARIABLE metrics_calls

\* sum(1 for p in promises if p.get('status') == status)
CountStatus(promises, status) ==
    Cardinality({i \in DOMAIN promises : GetOpt(promises[i], "status") = Str(status)})

\* The loop of _identify_strong_areas / _identify_weak_areas over the
\* promises whose status is in statuses; areas is the list built so far
RECURSIVE AreaLoop(_, _, _)
AreaLoop(promises, statuses, areas) ==
    IF promises = <<>> THEN areas
    ELSE LET Step(promise, area) ==
                 IF /\ GetOpt(promise, "status") \in statuses
                    /\ \A i \in DOMAIN areas : areas[i] # area
                    /\ area # "General Policy"
                 THEN AreaLoop(Tail(promises), statuses, Append(areas, area))
                 ELSE AreaLoop(Tail(promises), statuses, areas)
         IN  Step(Head(promises),
                  _determine_policy_area(Fmt(Get(Head(promises), "promise", ""))))

\* _identify_strong_areas without the final [:3]
_identify_strong_areas_uncapped(promises) ==
    AreaLoop(promises, {Str("fulfilled"), Str("partially_fulfilled")}, <<>>)

_identify_strong_areas(promises) ==
    Take(AreaLoop(promises, {Str("fulfilled"), Str("partially_fulfilled")}, <<>>), 3)

_identify_weak_areas(promises) ==
    Take(AreaLoop(promises, {Str("not_fulfilled")}, <<>>), 3)

\* round(((fulfilled + 0.5 * partially) / total) * 100, 1), in tenths
fulfillment_rate(fulfilled, partially, total) ==
    RoundTenths(FloatMulSmall(FloatDiv(2 * fulfilled + partially, 2 * total), 100))

\* _calculate_promise_metrics keeping its counters between calls: each call
\* adds to the counts of the call before it
_calculate_promise_metrics_accumulating(promises) ==
    IF promises = <<>> THEN EmptyDict
    ELSE LET Summary(rate) ==
                 "Based on available data, promise fulfillment rate of "
                     \o FmtTenths(rate) \o "% indicates "
                     \o (IF rate > 600 THEN "strong"
                         ELSE IF rate > 300 THEN "moderate" ELSE "developing")
                     \o " progress on stated commitments."
             Metrics(total, fulfilled, partially, in_progress, not_fulfilled, rate) ==
                 [total_promises_tracked      |-> total,
                  fulfilled_count             |-> fulfilled,
                  partially_fulfilled_count   |-> partially,
                  in_progress_count           |-> in_progress,
                  not_fulfilled_count         |-> not_fulfilled,
                  calculated_fulfillment_rate |-> FmtTenths(rate) \o "%",
                  strongest_areas             |-> _identify_strong_areas(promises),
                  weakest_areas               |-> _identify_weak_areas(promises),
                  analysis_summary            |-> Summary(rate)]
             Counted(total, fulfilled, partially, in_progress, not_fulfilled) ==
                 Metrics(total, fulfilled, partially, in_progress, not_fulfilled,
                         fulfillment_rate(fulfilled, partially, total))
         IN  Counted((Len(metrics_calls) + 1) * Len(promises),
                     (Len(metrics_calls) + 1) * CountStatus(promises, "fulfilled"),
                     (Len(metrics_calls) + 1) * CountStatus(promises, "partially_fulfilled"),
                     (Len(metrics_calls) + 1) * CountStatus(promises, "in_progress"),
                     (Len(metrics_calls) + 1) * CountStatus(promises, "not_fulfilled"))

_calculate_promise_metrics(promises) ==
    IF promises = <<>> THEN EmptyDict
    ELSE LET Summary(rate) ==
                 "Based on available data, promise fulfillment rate of "
                     \o FmtTenths(rate) \o "% indicates "
                     \o (IF rate > 600 THEN "strong"
                         ELSE IF rate > 300 THEN "moderate" ELSE "developing")
                     \o " progress on stated commitments."
             Metrics(total, fulfilled, partially, in_progress, not_fulfilled, rate) ==
                 [total_promises_tracked      |-> total,
                  fulfilled_count             |-> fulfilled,
                  partially_fulfilled_count   |-> partially,
                  in_progress_count           |-> in_progress,
                  not_fulfilled_count         |-> not_fulfilled,
                  calculated_fulfillment_rate |-> FmtTenths(rate) \o "%",
                  strongest_areas             |-> _identify_strong_areas(promises),
                  weakest_areas               |-> _identify_weak_areas(promises),
                  analysis_summary            |-> Summary(rate)]
             Counted(total, fulfilled, partially, in_progress, not_fulfilled) ==
                 Metrics(total, fulfilled, partially, in_progress, not_fulfilled,
                         fulfillment_rate(fulfilled, partially, total))
         IN  Counted(Len(promises),
                     CountStatus(promises, "fulfilled"),
                     CountStatus(promises, "partially_fulfilled"),
                     CountStatus(promises, "in_progress"),
                     CountStatus(promises, "not_fulfilled"))

\* ------------------------------------------------------------------------
\* analyze
\* ------------------------------------------------------------------------

\* raw_data.get('wikipedia', {})
WikiOf(raw_data) == IF "wikipedia" \in DOMAIN raw_data THEN raw_data["wikipedia"] ELSE EmptyDict

\* raw_data.get('news', [])
NewsOf(raw_data) == IF "news" \in DOMAIN raw_data THEN raw_data["news"] ELSE <<>>

\* analyze raises when one of its steps does.  _analyze_real_activities,
\* _extract_real_legislative_record and _analyze_real_voting_patterns only
\* raise on a None extract, on which _extract_basic_info has raised before.
analyze_raises(name, raw_data) ==
    LET Raises(wiki_data, news_data) ==
            \/ _extract_basic_info_raises(name, wiki_data)
            \/ _extract_real_promises_raises(name, wiki_data, news_data)
            \/ _identify_real_controversies_raises(name, wiki_data, news_data)
    IN  Raises(WikiOf(raw_data), NewsOf(raw_data))

\* analyze computing the promise metrics from the promise list before its
\* cap at 6
analyze_metrics_before_cap(name, raw_data, now) ==
    LET Report(wiki_data, news_data, basic_info, activities, promises) ==
            [politician       |-> name,
             party            |-> basic_info.party,
             position         |-> basic_info.position,
             activities       |-> activities,
             promises         |-> promises,
             bills            |-> _extract_real_legislative_record(name, wiki_data,
                                                                   activities),
             promise_analysis |-> _calculate_promise_metrics(
                                      ScoredPromises(
                                          UnscoredPromises(wiki_data, news_data),
                                          wiki_data, news_data)),
             controversies    |-> _identify_real_controversies(name, wiki_data,
                                                               news_data, now),
             data_sources     |-> <<"Wikipedia API", "NewsAPI",
                                    "Internal Global Political Analysis Engine">>]
        Of(wiki_data, news_data) ==
            Report(wiki_data, news_data,
                   _extract_basic_info(name, wiki_data),
                   _analyze_real_activities(name, wiki_data, news_data, now),
                   _extract_real_promises(name, wiki_data, news_data))
    IN  Of(WikiOf(raw_data), NewsOf(raw_data))

\* term_period, summary and voting_record_summary are not modelled
analyze(name, raw_data, now) ==
    LET Report(wiki_data, news_data, basic_info, activities, promises) ==
            [politician       |-> name,
             party            |-> basic_info.party,
             position         |-> basic_info.position,
             activities       |-> activities,
             promises         |-> promises,
             bills            |-> _extract_real_legislative_record(name, wiki_data,
                                                                   activities),
             promise_analysis |-> _calculate_promise_metrics(promises),
             controversies    |-> _identify_real_controversies(name, wiki_data,
                                                               news_data, now),
             data_sources     |-> <<"Wikipedia API", "NewsAPI",
                                    "Internal Global Political Analysis Engine">>]
        Of(wiki_data, news_data) ==
            Report(wiki_data, news_data,
                   _extract_basic_info(name, wiki_data),
                   _analyze_real_activities(name, wiki_data, news_data, now),
                   _extract_real_promises(name, wiki_data, news_data))
    IN  Of(WikiOf(raw_data), NewsOf(raw_data))

\* ------------------------------------------------------------------------
\* The state machine
\* ------------------------------------------------------------------------

VARIABLES
    pc,             \* "start", "returned", "raised", "metrics" or the handler's position
    name,           \* analyze's name argument
    raw_data,       \* analyze's raw_data argument
    now,            \* datetime.now() as <<year, month>>
    report,         \* the Report analyze returned, NoReport before
    promise_list,   \* the argument of the metrics calculator called on its own
    response        \* the response of the /analyze handler, NoResponse before

vars == <<pc, name, raw_data, now, report, promise_list, metrics_calls, response>>

NoReport == EmptyDict

NoResponse == EmptyDict

\* analyze is about to be called on some name and raw_data
Init ==
    /\ pc = "start"
    /\ name \in Names
    /\ raw_data \in RawDataSet
    /\ now \in Clocks
    /\ report = NoReport
    /\ promise_list = <<>>
    /\ metrics_calls = <<>>
    /\ response = NoResponse

\* await reasoning_agent.analyze(name, raw_data) returns a Report
AnalyzeReturns ==
    /\ pc = "start"
    /\ ~analyze_raises(name, raw_data)
    /\ report' = analyze(name, raw_data, now)
    /\ pc' = "returned"
    /\ UNCHANGED <<name, raw_data, now, promise_list, metrics_calls, response>>

\* await reasoning_agent.analyze(name, raw_data) raises AttributeError
AnalyzeRaises ==
    /\ pc = "start"
    /\ analyze_raises(name, raw_data)
    /\ pc' = "raised"
    /\ UNCHANGED <<name, raw_data, now, report, promise_list, metrics_calls, response>>

Next == AnalyzeReturns \/ AnalyzeRaises

Spec == Init /\ [][Next]_vars

\* The metrics calculator is about to be called on some promise list
InitMetrics ==
    /\ pc = "metrics"
    /\ name = ""
    /\ raw_data = EmptyDict
    /\ now \in Clocks
    /\ report = NoReport
    /\ promise_list \in PromiseLists
    /\ metrics_calls = <<>>
    /\ response = NoResponse

\* One more call of _calculate_promise_metrics(promise_list)
CalculateMetrics ==
    /\ pc = "metrics"
    /\ Len(metrics_calls) < MaxCalls
    /\ metrics_calls' = Append(metrics_calls, _calculate_promise_metrics(promise_list))
    /\ UNCHANGED <<pc, name, raw_data, now, report, promise_list, response>>

NextMetrics == CalculateMetrics

SpecMetrics == InitMetrics /\ [][NextMetrics]_vars

\* ------------------------------------------------------------------------
\* Properties of analyze
\* ------------------------------------------------------------------------

\* The promises of the Report analyze returned
ReturnedPromises == IF pc = "returned" THEN report.promises ELSE <<>>

\* C1: in every Report analyze returns, each promise's
\* fulfillment_percentage is an integer in 0..100 and its status is the
\* bucket of it: fulfilled iff score >= 80, partially_fulfilled iff
\* 60 <= score <= 79, in_progress iff 30 <= score <= 59, not_fulfilled iff
\* score < 30.
C1_StatusIsBucketOfScore ==
    \A i \in DOMAIN ReturnedPromises :
        LET score  == ReturnedPromises[i].fulfillment_percentage
            status == ReturnedPromises[i].status
        IN  /\ score \in 0..100
            /\ status \in {Str("fulfilled"), Str("partially_fulfilled"),
                           Str("in_progress"), Str("not_fulfilled")}
            /\ (status = Str("fulfilled") <=> score >= 80)
            /\ (status = Str("partially_fulfilled") <=> (60 <= score /\ score <= 79))
            /\ (status = Str("in_progress") <=> (30 <= score /\ score <= 59))
            /\ (status = Str("not_fulfilled") <=> score < 30)

\* A returned Report holds promises on both sides of a threshold: one scored
\* exactly 80 and one scored less than 30
C1_Witness ==
    /\ \E i \in DOMAIN ReturnedPromises : ReturnedPromises[i].fulfillment_percentage = 80
    /\ \E i \in DOMAIN ReturnedPromises : ReturnedPromises[i].fulfillment_percentage < 30

\* C2: every Report analyze returns has at most 6 activities, 6 promises,
\* 5 bills and 3 controversies, whatever the length of the news sequence.
C2_Caps ==
    pc = "returned" =>
        /\ Len(report.activities) <= 6
        /\ Len(report.promises) <= 6
        /\ Len(report.bills) <= 5
        /\ Len(report.controversies) <= 3

\* A Report returned for more than 6 news items, from which more than 6
\* promises and more than 3 controversies were extracted before the caps
C2_Witness ==
    /\ pc = "returned"
    /\ Len(NewsOf(raw_data)) > 6
    /\ Len(UnscoredPromises(WikiOf(raw_data), NewsOf(raw_data))) > 6
    /\ Len(report.promises) = 6
    /\ Len(NewsControversies(NewsOf(raw_data), now)) > 3
    /\ Len(report.controversies) = 3

\* analyze's input with an empty wikipedia record and no news
EmptyInput == [wikipedia |-> EmptyDict, news |-> <<>>]

\* C3: on {wikipedia: {}, news: []} analyze does not raise and returns, for
\* any name, a Report without an error key whose party is "Unknown", whose
\* position is "Political Figure" and whose activities, promises and bills
\* are empty.
C3_EmptyInputDegrades ==
    raw_data = EmptyInput =>
        /\ pc # "raised"
        /\ pc = "returned" =>
            /\ "error" \notin DOMAIN report
            /\ report.politician = name
            /\ report.party = "Unknown"
            /\ report.position = "Political Figure"
            /\ report.activities = <<>>
            /\ report.promises = <<>>
            /\ report.bills = <<>>

\* analyze has returned on the empty input
C3_Witness == pc = "returned" /\ raw_data = EmptyInput

\* C4: analyze never raises, whichever fields of the wikipedia record and
\* of the news items are absent, empty or null.
C4_NeverRaises == pc # "raised"

\* C5: in every Report analyze returns, promise_analysis is the metrics of
\* that Report's promises: it is the empty object iff promises is empty,
\* and otherwise total_promises_tracked is the length of promises and each
\* status count is the number of returned promises with that status.
C5_MetricsOfReturnedPromises ==
    pc = "returned" =>
        LET promises == report.promises
            metrics  == report.promise_analysis
            Count(status) ==
                Cardinality({i \in DOMAIN promises : promises[i].status = Str(status)})
        IN  /\ (metrics = EmptyDict <=> promises = <<>>)
            /\ metrics = _calculate_promise_metrics(promises)
            /\ promises # <<>> =>
                /\ metrics.total_promises_tracked = Len(promises)
                /\ metrics.fulfilled_count = Count("fulfilled")
                /\ metrics.partially_fulfilled_count = Count("partially_fulfilled")
                /\ metrics.in_progress_count = Count("in_progress")
                /\ metrics.not_fulfilled_count = Count("not_fulfilled")

\* A Report whose 6 promises are what the cap left of more, with metrics
\* that count 6 promises
C5_Witness ==
    /\ pc = "returned"
    /\ Len(UnscoredPromises(WikiOf(raw_data), NewsOf(raw_data))) > 6
    /\ Len(report.promises) = 6
    /\ report.promise_analysis.total_promises_tracked = 6


\* The sum of a sequence of integers
RECURSIVE SumOf(_)
SumOf(seq) == IF seq = <<>> THEN 0 ELSE Head(seq) + SumOf(Tail(seq))

\* A news item shares one of the first 3 words of a promise
C7_Shares(promise, article) ==
    AnyIn(Take(SplitWords(Lower(Fmt(promise.promise))), 3), ArticleText(article))

C7_Progress(article) ==
    AnyIn(<<"progress", "working", "developing">>, ArticleText(article))

C7_Completion(article) ==
    AnyIn(<<"completed", "achieved", "delivered">>, ArticleText(article))

\* 40 if the biography contains achieved, completed, implemented or delivered
C7_Biography ==
    IF AnyIn(<<"achieved", "completed", "implemented", "delivered">>,
             Lower(Fmt(Get(WikiOf(raw_data), "extract", ""))))
    THEN 40 ELSE 0

\* C7 as the code has it: the fulfillment score of every returned promise is
\* min(100, 40*[biography contains achieved, completed, implemented or
\* delivered] + the sum, over every news item that shares one of the
\* promise's first 3 words, of 20 if the item contains a progress keyword
\* and otherwise 50 if it contains a completion keyword): an item with both
\* kinds of keyword contributes 20.
C7_ScoreProgressElseCompletion ==
    \A i \in DOMAIN ReturnedPromises :
        LET news == NewsOf(raw_data)
            points == [j \in DOMAIN news |->
                        IF ~C7_Shares(ReturnedPromises[i], news[j]) THEN 0
                        ELSE IF C7_Progress(news[j]) THEN 20
                        ELSE IF C7_Completion(news[j]) THEN 50
                        ELSE 0]
        IN  ReturnedPromises[i].fulfillment_percentage
                = Min(100, C7_Biography + SumOf(points))

\* C7 as stated: the progress and the completion checks are independent,
\* and an item with both kinds of keyword contributes 70.
C7_ScoreIndependentChecks ==
    \A i \in DOMAIN ReturnedPromises :
        LET news == NewsOf(raw_data)
            points == [j \in DOMAIN news |->
                        IF ~C7_Shares(ReturnedPromises[i], news[j]) THEN 0
                        ELSE (IF C7_Progress(news[j]) THEN 20 ELSE 0)
                             + (IF C7_Completion(news[j]) THEN 50 ELSE 0)]
        IN  ReturnedPromises[i].fulfillment_percentage
                = Min(100, C7_Biography + SumOf(points))

\* A returned promise scored below 100 shares a word with a news item that
\* contains both a progress and a completion keyword
C7_Witness ==
    \E i \in DOMAIN ReturnedPromises :
        /\ ReturnedPromises[i].fulfillment_percentage < 100
        /\ \E j \in DOMAIN NewsOf(raw_data) :
                /\ C7_Shares(ReturnedPromises[i], NewsOf(raw_data)[j])
                /\ C7_Progress(NewsOf(raw_data)[j])
                /\ C7_Completion(NewsOf(raw_data)[j])

\* ------------------------------------------------------------------------
\* Properties of the metrics calculator
\* ------------------------------------------------------------------------

\* The number of promises of promise_list whose status is in statuses
StatusCount(statuses) ==
    Cardinality({i \in DOMAIN promise_list :
                    GetOpt(promise_list[i], "status") \in {Str(st) : st \in statuses}})

\* C6: for a non-empty promise list calculated_fulfillment_rate is
\* round(100 * (fulfilled + 0.5 * partially_fulfilled) / total, 1) followed
\* by "%", between 0.0% and 100.0%; for the empty list the metrics object is
\* empty.
C6_RateFormula ==
    \A k \in DOMAIN metrics_calls :
        IF promise_list = <<>> THEN metrics_calls[k] = EmptyDict
        ELSE LET twice == 2 * StatusCount({"fulfilled"})
                            + StatusCount({"partially_fulfilled"})
                 rate  == RoundTenths(FloatDiv(100 * twice, 2 * Len(promise_list)))
             IN  /\ rate \in 0..1000
                 /\ metrics_calls[k].calculated_fulfillment_rate = FmtTenths(rate) \o "%"

\* C8: a promise whose status is broken is counted in not_fulfilled_count
\* and its policy area is among the weak ones, so that the four status
\* counts of a list of fulfilled, partially_fulfilled, in_progress,
\* not_fulfilled and broken promises sum to total_promises_tracked.
C8_BrokenIsNotFulfilled ==
    \A k \in DOMAIN metrics_calls :
        promise_list # <<>> =>
            LET m == metrics_calls[k]
            IN  /\ m.not_fulfilled_count = StatusCount({"not_fulfilled", "broken"})
                /\ m.fulfilled_count + m.partially_fulfilled_count
                        + m.in_progress_count + m.not_fulfilled_count
                    = m.total_promises_tracked
                /\ m.weakest_areas
                    = Take(AreaLoop(promise_list,
                                    {Str("not_fulfilled"), Str("broken")}, <<>>), 3)

AreaOf(i) == _determine_policy_area(Fmt(Get(promise_list[i], "promise", "")))

\* The positions of promise_list at which a policy area other than General
\* Policy occurs for the first time among the promises with a status in
\* statuses
FirstSeen(statuses) ==
    LET candidates == {i \in DOMAIN promise_list :
                          /\ GetOpt(promise_list[i], "status") \in {Str(st) : st \in statuses}
                          /\ AreaOf(i) # "General Policy"}
    IN  {i \in candidates : \A j \in candidates : j < i => AreaOf(j) # AreaOf(i)}

\* areas lists, in the order of their positions, the areas at the first
\* positions of FirstSeen(statuses), at most 3 of them
IsAreaList(areas, statuses) ==
    LET first == FirstSeen(statuses)
    IN  /\ Len(areas) = Min(3, Cardinality(first))
        /\ \A n \in DOMAIN areas :
                \E i \in first : /\ Cardinality({j \in first : j <= i}) = n
                                 /\ areas[n] = AreaOf(i)

\* C10: strongest_areas is the sequence of the policy areas of the promises
\* with status fulfilled or partially_fulfilled, weakest_areas that of the
\* promises with status not_fulfilled, each in first-seen order, without
\* duplicates, without General Policy and of length at most 3.
C10_Areas ==
    \A k \in DOMAIN metrics_calls :
        promise_list # <<>> =>
            LET strongest == metrics_calls[k].strongest_areas
                weakest   == metrics_calls[k].weakest_areas
            IN  /\ IsAreaList(strongest, {"fulfilled", "partially_fulfilled"})
                /\ IsAreaList(weakest, {"not_fulfilled"})
                /\ \A areas \in {strongest, weakest} :
                        /\ Len(areas) <= 3
                        /\ \A a, b \in DOMAIN areas : areas[a] = areas[b] => a = b
                        /\ \A a \in DOMAIN areas : areas[a] # "General Policy"

\* The metrics of a list with more than 3 strong and more than 3 weak
\* areas, a General Policy promise and an area that occurs twice
C10_Witness ==
    /\ metrics_calls # <<>>
    /\ Cardinality(FirstSeen({"fulfilled", "partially_fulfilled"})) > 3
    /\ Cardinality(FirstSeen({"not_fulfilled"})) > 3
    /\ \E i \in DOMAIN promise_list : AreaOf(i) = "General Policy"
    /\ \E i, j \in DOMAIN promise_list : i # j /\ AreaOf(i) = AreaOf(j)
    /\ Len(metrics_calls[1].strongest_areas) = 3
    /\ Len(metrics_calls[1].weakest_areas) = 3

\* ------------------------------------------------------------------------
\* Properties of the news sequence
\* ------------------------------------------------------------------------

\* raw_data with its news sequence cut to its first 6 items
FirstSixOf(data) == [wikipedia |-> WikiOf(data), news |-> Take(NewsOf(data), 6)]

\* C11: two news sequences that agree on their first 6 items give the same
\* Report; in particular the Report returned for a news sequence is the
\* Report of its first 6 items.
C11_ReadsFirstSixOnly ==
    pc = "returned" =>
        /\ ~analyze_raises(name, FirstSixOf(raw_data))
        /\ report = analyze(name, FirstSixOf(raw_data), now)

\* ------------------------------------------------------------------------
\* The /analyze request handler (main.py) and the fetch collaborator
\* ------------------------------------------------------------------------

\* The longest news list a fetch returns in the model
MaxFetchedNews == 2

\* The name query parameter: empty, or a politician's name
RequestNames == Names \cup {""}

fallback_politicians ==
    [x \in {"joe biden", "donald trump", "kamala harris"} |->
        IF x = "joe biden"
        THEN [extract |-> Str("Joseph Robinette Biden Jr. is an American politician who is "
                              \o "the 46th and current president of the United States. "
                              \o "A member of the Democratic Party, he previously served as "
                              \o "the 47th vice president from 2009 to 2017 under Barack Obama."),
              title   |-> Str("Joe Biden")]
        ELSE IF x = "donald trump"
        THEN [extract |-> Str("Donald John Trump is an American politician, media "
                              \o "personality, and businessman who served as the 45th "
                              \o "president of the United States from 2017 to 2021."),
              title   |-> Str("Donald Trump")]
        ELSE [extract |-> Str("Kamala Devi Harris is an American politician and attorney "
                              \o "who is the 49th and current vice president of the "
                              \o "United States."),
              title   |-> Str("Kamala Harris")]]

get_fallback_data(politician) ==
    LET Default(name_lower) ==
            IF name_lower \in DOMAIN fallback_politicians
            THEN fallback_politicians[name_lower]
            ELSE [extract |-> Str("Political figure: " \o politician
                                  \o ". Please configure API keys for detailed information."),
                  title   |-> Str(politician)]
    IN  Default(Lower(politician))

\* get_data on what fetch_wikipedia and fetch_news returned: a biography
\* without a non-empty extract is replaced by the fallback data
get_data(politician, wikipedia_data, news_data) ==
    [wikipedia |-> IF wikipedia_data = EmptyDict
                      \/ ~Truthy(GetOpt(wikipedia_data, "extract"))
                   THEN get_fallback_data(politician)
                   ELSE wikipedia_data,
     news      |-> news_data]

\* What fetch_agent.get_data(name) may return: fetch_wikipedia gives {} or
\* the summary record, fetch_news gives [] or the articles
FetchedData(politician) ==
    {get_data(politician, w, ns) : w \in WikiPool, ns \in SeqsUpTo(NewsPool, MaxFetchedNews)}

\* The error results of the generative strategy: {error: text}
ErrorResults ==
    {[error |-> "Model access credential is not configured"],
     [error |-> "Failed to parse analysis response"]}

\* HTTPException(status_code=..., detail=...)
HTTPException(status_code, detail) ==
    [status_code |-> status_code, detail |-> detail, body |-> NoReport]

\* The success response: the handler returns analysis
SuccessResponse(analysis) == [status_code |-> 200, detail |-> "", body |-> analysis]

\* str(e) for an HTTPException e: "status_code: detail" where the class
\* defines __str__, and "" where it inherits Exception.__str__ with no args
StrOfHTTPException(e) == {IntToStr(e.status_code) \o ": " \o e.detail, ""}

\* except Exception as e: raise HTTPException(500, f"An unexpected error occurred: {str(e)}")
Unexpected(message) == HTTPException(500, "An unexpected error occurred: " \o message)

\* A request with some name query parameter has reached the handler
InitHandler ==
    /\ pc = "request"
    /\ name \in RequestNames
    /\ raw_data = EmptyDict
    /\ now \in Clocks
    /\ report = NoReport
    /\ promise_list = <<>>
    /\ metrics_calls = <<>>
    /\ response = NoResponse

\* if not name: raise HTTPException(400, ...), outside the try block
RejectEmptyName ==
    /\ pc = "request"
    /\ name = ""
    /\ response' = HTTPException(400, "Politician name is required.")
    /\ pc' = "responded"
    /\ UNCHANGED <<name, raw_data, now, report, promise_list, metrics_calls>>

\* raw_data = fetch_agent.get_data(name) returns
FetchReturns ==
    /\ pc = "request"
    /\ name # ""
    /\ raw_data' \in FetchedData(name)
    /\ pc' = "fetched"
    /\ UNCHANGED <<name, now, report, promise_list, metrics_calls, response>>

\* fetch_agent.get_data(name) raises: the summary fetched is not a JSON
\* object, and wikipedia_data.get is called outside fetch_wikipedia's try
FetchRaises ==
    /\ pc = "request"
    /\ name # ""
    /\ response' = Unexpected("'list' object has no attribute 'get'")
    /\ pc' = "responded"
    /\ UNCHANGED <<name, raw_data, now, report, promise_list, metrics_calls>>

\* analysis = await reasoning_agent.analyze(name, raw_data) returns a Report
AnalysisReturns ==
    /\ pc = "fetched"
    /\ ~analyze_raises(name, raw_data)
    /\ report' = analyze(name, raw_data, now)
    /\ pc' = "analyzed"
    /\ UNCHANGED <<name, raw_data, now, promise_list, metrics_calls, response>>

\* the analysis is an error result of the generative strategy
AnalysisReturnsError ==
    /\ pc = "fetched"
    /\ report' \in ErrorResults
    /\ pc' = "analyzed"
    /\ UNCHANGED <<name, raw_data, now, promise_list, metrics_calls, response>>

\* analyze raises AttributeError, caught by except Exception
AnalysisRaises ==
    /\ pc = "fetched"
    /\ analyze_raises(name, raw_data)
    /\ response' = Unexpected("'NoneType' object has no attribute 'lower'")
    /\ pc' = "responded"
    /\ UNCHANGED <<name, raw_data, now, report, promise_list, metrics_calls>>

\* if "error" in analysis: raise HTTPException(500, analysis["error"]), in
\* the try block, so that except Exception catches it and raises the
\* generic one in its place
RespondError ==
    /\ pc = "analyzed"
    /\ "error" \in DOMAIN report
    /\ \E message \in StrOfHTTPException(HTTPException(500, report.error)) :
            response' = Unexpected(message)
    /\ pc' = "responded"
    /\ UNCHANGED <<name, raw_data, now, report, promise_list, metrics_calls>>

\* return analysis
RespondSuccess ==
    /\ pc = "analyzed"
    /\ "error" \notin DOMAIN report
    /\ response' = SuccessResponse(report)
    /\ pc' = "responded"
    /\ UNCHANGED <<name, raw_data, now, report, promise_list, metrics_calls>>

NextHandler ==
    \/ RejectEmptyName
    \/ FetchReturns
    \/ FetchRaises
    \/ AnalysisReturns
    \/ AnalysisReturnsError
    \/ AnalysisRaises
    \/ RespondError
    \/ RespondSuccess

SpecHandler == InitHandler /\ [][NextHandler]_vars

\* ------------------------------------------------------------------------
\* Properties of the request handler
\* ------------------------------------------------------------------------

\* s starts with prefix
StartsWith(s, prefix) == Len(s) >= Len(prefix) /\ SubSeq(s, 1, Len(prefix)) = prefix

\* C12: a request with an empty name gets a 400 response and neither fetch
\* nor analysis runs; a request with a non-empty name gets either the Report
\* as the success response or a 500 response; an engine result with an error
\* key is never the success response and gets a 500 response whose detail
\* carries the error message; a fault in fetch or analysis gets a 500
\* response with the message "An unexpected error occurred: ...".
C12_HandlerOutcomes ==
    pc = "responded" =>
        /\ name = "" =>
            /\ response.status_code = 400
            /\ raw_data = EmptyDict
            /\ report = NoReport
        /\ name # "" =>
            /\ response.status_code \in {200, 500}
            /\ response.status_code = 200 =>
                /\ report # NoReport
                /\ "error" \notin DOMAIN report
                /\ response.body = report
            /\ "error" \in DOMAIN report =>
                /\ response.status_code = 500
                /\ ContainsAt(report.error, response.detail)
            /\ report = NoReport =>
                /\ response.status_code = 500
                /\ StartsWith(response.detail, "An unexpected error occurred: ")

\* ------------------------------------------------------------------------
\* Properties of the activities
\* ------------------------------------------------------------------------

\* The activities of the Report analyze returned
ReturnedActivities == IF pc = "returned" THEN report.activities ELSE <<>>

\* s has the form YYYY-MM
IsYearMonth(s) ==
    /\ Len(s) = 7
    /\ AllDigits(SubSeq(s, 1, 4))
    /\ CharAt(s, 5) = "-"
    /\ AllDigits(SubSeq(s, 6, 7))
    /\ ParseInt(SubSeq(s, 6, 7)) \in 1..12

\* One of the first 6 news items has a title that contains the name
SomeNewsActivity ==
    \E i \in 1..Min(6, Len(NewsOf(raw_data))) :
        LET title == Get(NewsOf(raw_data)[i], "title", "")
        IN  Truthy(title) /\ ContainsAt(LowerRange(name, 1, Len(name)),
                                        LowerRange(Fmt(title), 1, Len(Fmt(title))))

\* C13 as stated: every returned Activity has a date of the form YYYY-MM,
\* be it built from a news item or from the biography.
C13_DatesAreYearMonth ==
    \A i \in DOMAIN ReturnedActivities : IsYearMonth(ReturnedActivities[i].date)

\* C13 as the code has it: the date of an Activity built from a news item
\* has the form YYYY-MM, and the date of an Activity of the biography
\* fallback is "2024".
C13_NewsDatesAreYearMonth ==
    \A i \in DOMAIN ReturnedActivities :
        IF SomeNewsActivity
        THEN IsYearMonth(ReturnedActivities[i].date)
        ELSE ReturnedActivities[i].date = "2024"

\* Activities built from news items, one dated by its publishedAt in a month
\* before October and one dated by the current month
C13_Witness ==
    /\ SomeNewsActivity
    /\ \E i \in DOMAIN ReturnedActivities : ReturnedActivities[i].date = "2024-03"
    /\ \E i \in DOMAIN ReturnedActivities :
            ReturnedActivities[i].date = StrfYearMonth(now[1], now[2])

\* ------------------------------------------------------------------------
\* Basic information extracted on its own
\* ------------------------------------------------------------------------

\* The biographies handed to _extract_basic_info: a name followed by three
\* of the phrases below, each possibly empty
PositionTexts ==
    LET Phrases == {"", "the President", "prime minister", "a senator", "her campaign",
                    "governor", "chief minister", "opposition leader", "Lord",
                    "in the UK", "was", "former", "teacher"}
    IN  {"Jane Doe " \o a \o " " \o b \o " " \o c : a, b, c \in Phrases}

\* _extract_basic_info is about to be called on some biography
InitPosition ==
    /\ pc = "basic_info"
    /\ name \in Names
    /\ raw_data \in {[wikipedia |-> [extract |-> Str(t)], news |-> <<>>] : t \in PositionTexts}
    /\ now \in Clocks
    /\ report = NoReport
    /\ promise_list = <<>>
    /\ metrics_calls = <<>>
    /\ response = NoResponse

\* basic_info = self._extract_basic_info(name, wiki_data)
ExtractBasicInfo ==
    /\ pc = "basic_info"
    /\ report' = _extract_basic_info(name, WikiOf(raw_data))
    /\ pc' = "extracted"
    /\ UNCHANGED <<name, raw_data, now, promise_list, metrics_calls, response>>

NextPosition == ExtractBasicInfo

SpecPosition == InitPosition /\ [][NextPosition]_vars

\* ------------------------------------------------------------------------
\* Properties of the position
\* ------------------------------------------------------------------------

\* The lower-cased biography of the state
BiographyLower ==
    LET extract == Fmt(Get(WikiOf(raw_data), "extract", ""))
    IN  LowerRange(extract, 1, Len(extract))

\* Keyword j of category i of global_positions occurs in the biography
PositionHit(i, j) == ContainsAt(global_positions[i][2][j], BiographyLower)

\* Some keyword of category i occurs in the biography
CategoryHit(i) == \E j \in DOMAIN global_positions[i][2] : PositionHit(i, j)

\* Some title of a country of country_titles occurs with its country
CountryHit ==
    \E i \in DOMAIN country_titles :
        /\ ContainsAt(country_titles[i][1], BiographyLower)
        /\ \E j \in DOMAIN country_titles[i][2] :
                ContainsAt(country_titles[i][2][j], BiographyLower)

ReturnedControversies == IF pc = "returned" THEN report.controversies ELSE <<>>

\* The positions of the news items whose title and description contain a
\* controversy keyword
ControversialNews ==
    {i \in DOMAIN NewsOf(raw_data) :
        LET title == Fmt(Get(NewsOf(raw_data)[i], "title", ""))
            description == Fmt(Get(NewsOf(raw_data)[i], "description", ""))
            text == LowerRange(title, 1, Len(title)) \o " "
                        \o LowerRange(description, 1, Len(description))
        IN  \E k \in DOMAIN controversy_keywords : ContainsAt(controversy_keywords[k], text)}

\* C15: the controversies are the first 3 of the news-derived records, one
\* per news item with a controversy keyword and in news order, followed by
\* the biography-derived records, and no biography sentence is the issue of
\* two records.
C15_OneRecordPerSentence ==
    /\ Len(ReturnedControversies) <= 3
    /\ \A n \in DOMAIN ReturnedControversies :
            IF n <= Cardinality(ControversialNews)
            THEN \E i \in ControversialNews :
                    /\ Cardinality({j \in ControversialNews : j <= i}) = n
                    /\ ReturnedControversies[n].resolution = "Ongoing news coverage"
                    /\ ReturnedControversies[n].issue
                            = Fmt(Get(NewsOf(raw_data)[i], "title", "Political controversy"))
            ELSE ReturnedControversies[n].resolution = "Historical record"
    /\ \A m, n \in DOMAIN ReturnedControversies :
            (/\ m # n
             /\ ReturnedControversies[m].resolution = "Historical record"
             /\ ReturnedControversies[n].resolution = "Historical record")
            => ReturnedControversies[m].issue # ReturnedControversies[n].issue

\* ------------------------------------------------------------------------
\* Properties of the bills
\* ------------------------------------------------------------------------

\* The bills built from the sentences of the biography, in sentence order
BiographyBills ==
    LET extract == Fmt(Get(WikiOf(raw_data), "extract", ""))
    IN  WikiBills(SplitFrom(LowerRange(extract, 1, Len(extract)), "."), name)

\* The returned activities of category Legislation, in activity order
LegislationActivities ==
    IF pc = "returned"
    THEN SelectSeq(report.activities, LAMBDA a : a.category = "Legislation")
    ELSE <<>>

\* C16: the bills are the first 5 of the biography-derived bills followed by
\* one Bill per Activity of category Legislation, in activity order, with
\* title the activity text, year the first 4 characters of the activity
\* date, status "Recent Activity" and role "Involved"; activities of other
\* categories give no Bill.
C16_BillsOfLegislationActivities ==
    pc = "returned" =>
        /\ Len(report.bills) = Min(5, Len(BiographyBills) + Len(LegislationActivities))
        /\ \A n \in DOMAIN report.bills :
                IF n <= Len(BiographyBills)
                THEN /\ report.bills[n] = BiographyBills[n]
                     /\ report.bills[n].status # "Recent Activity"
                ELSE LET activity == LegislationActivities[n - Len(BiographyBills)]
                     IN  /\ report.bills[n].title = activity.activity
                         /\ report.bills[n].year = SubSeq(activity.date, 1, 4)
                         /\ report.bills[n].status = "Recent Activity"
                         /\ report.bills[n].role = "Involved"

\* A Report with biography-derived bills, more Legislation activities than
\* the cap leaves room for, and an activity of another category
C16_Witness ==
    /\ pc = "returned"
    /\ Len(BiographyBills) >= 2
    /\ Len(BiographyBills) + Len(LegislationActivities) > 5
    /\ \E i \in DOMAIN report.activities : report.activities[i].category # "Legislation"
    /\ Len(report.bills) = 5
    /\ report.bills[5].status = "Recent Activity"

\* ------------------------------------------------------------------------
\* Properties of the promise list
\* ------------------------------------------------------------------------

\* The positions of the news items whose title and description contain a
\* promise keyword
PromisingNews ==
    {i \in DOMAIN NewsOf(raw_data) :
        LET title == Fmt(Get(NewsOf(raw_data)[i], "title", ""))
            description == Fmt(Get(NewsOf(raw_data)[i], "description", ""))
            text == Lower(title \o " " \o description)
        IN  \E word \in {"promise", "pledge", "commit", "plan"} : ContainsAt(word, text)}

\* The stripped sentences of the lower-cased biography that contain a promise
\* keyword, in sentence order
PromisingSentences ==
    LET sentences == Split(Lower(Fmt(Get(WikiOf(raw_data), "extract", ""))), ".")
        promising == SelectSeq(sentences, LAMBDA s :
                        \E word \in {"promise", "pledge", "commit", "plan to", "will",
                                      "intend"} : ContainsAt(word, s))
    IN  [i \in DOMAIN promising |-> Strip(promising[i])]

\* C17: the promises are the first 6 of one promise per qualifying news
\* item, in news order and uncapped, followed by the first 3 qualifying
\* biography sentences: at most 3 biography-derived promises appear, the
\* news-derived promises precede them, and with 6 or more qualifying news
\* items no biography-derived promise appears.
C17_NewsThenBiography ==
    pc = "returned" =>
        LET promises  == report.promises
            news      == PromisingNews
            sentences == PromisingSentences
            n         == Cardinality(news)
            b         == Min(3, Len(sentences))
        IN  /\ Len(promises) = Min(6, n + b)
            /\ \A k \in DOMAIN promises :
                    IF k <= n
                    THEN /\ promises[k].made_during = "Recent statements"
                         /\ \E i \in news :
                                /\ Cardinality({j \in news : j <= i}) = k
                                /\ promises[k].promise = Get(NewsOf(raw_data)[i], "title", "")
                    ELSE /\ promises[k].made_during = "Political career"
                         /\ promises[k].promise = Str(sentences[k - n])
            /\ Cardinality({k \in DOMAIN promises :
                                promises[k].made_during = "Political career"}) <= 3
            /\ n >= 6 => \A k \in DOMAIN promises :
                                promises[k].made_during = "Recent statements"

\* A Report for 7 qualifying news items and a biography with more than 3
\* qualifying sentences: 6 promises, none from the biography
C17_Witness ==
    /\ pc = "returned"
    /\ Cardinality(PromisingNews) > 6
    /\ Len(PromisingSentences) > 3
    /\ Len(report.promises) = 6
    /\ report.promises[6].made_during = "Recent statements"

====
